---- MODULE Spec2Model ----
(***************************************************************************)
(* Model of the notify_api custom component: the two configuration        *)
(* wizards (config_flow.py), the entry lifecycle (__init__.py) and the     *)
(* notification service (notify.py).                                       *)
(*                                                                         *)
(* Python strings that the code transforms (titles, names, identifiers)   *)
(* are sequences of one-character strings, so that lower(), upper(),      *)
(* strip(), replace() and slicing are computed character by character.    *)
(* Python dicts are functions whose DOMAIN is the set of keys.            *)
(***************************************************************************)
EXTENDS Integers, Sequences, FiniteSets, TLC

VARIABLES
    freeIds,      \* the entry identifiers the host has still to hand out
    entries,      \* the host's config entries: dict entry_id -> (state, title, data, options)
    hassData,     \* hass.data[DOMAIN]: dict entry_id -> {device_id, token}
    services,     \* names registered under the "notify" service domain
    sender,       \* dict entry_id -> the NotifyAPIService last built for it
    tasks,        \* platform-load tasks scheduled by hass.async_create_task
    listeners,    \* entries whose update listener (async_reload_entry) is scheduled
    userFlow,     \* the setup wizard (ConfigFlow)
    optFlow,      \* the reconfiguration wizard (OptionsFlowHandler)
    lastValidate, \* the last call of validate_input: its HTTP outcome and result
    lastSend,     \* the last call of send_message: its request and how it ended
    posted        \* the number of HTTP POSTs the notification services have issued

vars == <<freeIds, entries, hassData, services, sender, tasks, listeners,
          userFlow, optFlow, lastValidate, lastSend, posted>>

\* Python's None, where the code passes an optional string
None == "None"

(***************************************************************************)
(* const.py                                                                *)
(***************************************************************************)
NOTIFY_DOMAIN == <<"n","o","t","i","f","y","_","a","p","i">>
CONF_DEVICE_ID == "device_id"
CONF_TOKEN == "token"
CONF_DEFAULT_TITLE == "default_title"
CONF_DEFAULT_ICON_URL == "default_icon_url"
CONF_DEFAULT_GROUP_TYPE == "default_group_type"
ATTR_TITLE == "title"
ATTR_ICON_URL == "icon_url"
ATTR_GROUP_TYPE == "group_type"
ATTR_DATA == "data"
CONF_NAME == "name"

(***************************************************************************)
(* Python string operations, on sequences of characters.                  *)
(***************************************************************************)
UpperChars == <<"A","B","C","D","E","F","G","H","I","J","K","L","M",
                "N","O","P","Q","R","S","T","U","V","W","X","Y","Z">>
LowerChars == <<"a","b","c","d","e","f","g","h","i","j","k","l","m",
                "n","o","p","q","r","s","t","u","v","w","x","y","z">>

LowerChar(c) ==
    IF \E i \in 1..Len(UpperChars) : UpperChars[i] = c
    THEN LowerChars[CHOOSE i \in 1..Len(UpperChars) : UpperChars[i] = c]
    ELSE c

UpperChar(c) ==
    IF \E i \in 1..Len(LowerChars) : LowerChars[i] = c
    THEN UpperChars[CHOOSE i \in 1..Len(LowerChars) : LowerChars[i] = c]
    ELSE c

\* str.lower()
Lower(s) == [i \in 1..Len(s) |-> LowerChar(s[i])]

\* str.upper()
Upper(s) == [i \in 1..Len(s) |-> UpperChar(s[i])]

RECURSIVE ReplaceIn(_, _, _)
ReplaceIn(s, old, new) ==
    IF s = <<>> THEN <<>>
    ELSE (IF Head(s) = old THEN new ELSE <<Head(s)>>) \o ReplaceIn(Tail(s), old, new)

\* str.replace(old, new) for a one-character old; new is a string (maybe empty).
\* (The receiver is bound to a value first, so that a chain of replace calls is
\* evaluated from the inside out, once.)
Replace(s, old, new) == CHOOSE r \in {ReplaceIn(v, old, new) : v \in {s}} : TRUE

Whitespace == {" ", "\t", "\n"}

RECURSIVE LStrip(_)
LStrip(s) ==
    IF s # <<>> /\ Head(s) \in Whitespace THEN LStrip(Tail(s)) ELSE s

RECURSIVE RStrip(_)
RStrip(s) ==
    IF s # <<>> /\ s[Len(s)] \in Whitespace
    THEN RStrip(SubSeq(s, 1, Len(s) - 1)) ELSE s

\* str.strip()
Strip(s) == RStrip(LStrip(s))

\* s[:n]
Slice(s, n) == SubSeq(s, 1, IF Len(s) < n THEN Len(s) ELSE n)

\* whether sub occurs in s
Contains(s, sub) ==
    \E i \in 0..(Len(s) - Len(sub)) : SubSeq(s, i + 1, i + Len(sub)) = sub

\* dict.get(key, default)
Get(d, key, default) == IF key \in DOMAIN d THEN d[key] ELSE default

\* Python truthiness of an optional string: None and "" are falsy
Truthy(v) == v # None /\ v # ""

EmptyDict == [k \in {} |-> None]

(***************************************************************************)
(* __init__.py: the service name async_setup_entry derives from the title *)
(* (line 100-101) and the one async_unload_entry removes (line 170).      *)
(***************************************************************************)
IdPrefixLen == 8

FriendlyName(title) ==
    Replace(Replace(Replace(Replace(Replace(Lower(title),
        " ", <<"_">>), "!", <<>>), "(", <<>>), ")", <<>>), ".", <<>>)

SetupServiceName(title, entry_id) ==
    LET friendly_name == FriendlyName(title)
    IN  IF friendly_name # <<>> THEN friendly_name
        ELSE NOTIFY_DOMAIN \o <<"_">> \o Slice(entry_id, IdPrefixLen)

UnloadServiceName(entry_id) == NOTIFY_DOMAIN \o <<"_">> \o Slice(entry_id, IdPrefixLen)

(***************************************************************************)
(* Inputs. Device ids and custom names are character strings (the code    *)
(* upper-cases, strips and slices them); tokens are opaque.               *)
(***************************************************************************)
Id1 == <<"0","1","h","a","a","a","a","a","x","1">>
Id2 == <<"0","1","h","b","b","b","b","b","y","2">>
EntryIds == {Id1, Id2}

Dev1 == <<"a","b","c","1","2","3">>
Dev2 == <<"x","y","9">>
DeviceIds == {Dev1, Dev2}
Tokens == {"tok1", "tok2"}

DansPhone == <<"D","a","n","'","s"," ","P","h","o","n","e","!">>
\* custom names a user may type into the optional "name" field
PaddedName == <<" ","D"," ">>
CustomNames == {<<>>, <<" ">>, DansPhone, <<"(","!",")">>, PaddedName}

\* outcomes of requests.post: an HTTP status, or the exception it raises
\* (exc = "none": a response came back with status_code)
Statuses == {200, 201, 204, 400, 401, 403, 404, 500}
TransportErrors == {"Timeout", "ConnectionError", "RequestException"}
OtherErrors == {"Exception"}
Responded(code) == [exc |-> "none", status_code |-> code]
Raised(exc) == [exc |-> exc, status_code |-> 0]
Outcomes ==
    {Responded(c) : c \in Statuses} \cup {Raised(x) : x \in TransportErrors \cup OtherErrors}

\* user_input of the setup form (STEP_USER_DATA_SCHEMA): name is optional
UserInputs ==
    { [k \in {CONF_DEVICE_ID, CONF_TOKEN} |-> IF k = CONF_DEVICE_ID THEN d ELSE t]
        : d \in DeviceIds, t \in Tokens }
    \cup
    { [k \in {CONF_DEVICE_ID, CONF_TOKEN, CONF_NAME} |->
          IF k = CONF_DEVICE_ID THEN d ELSE IF k = CONF_TOKEN THEN t ELSE n]
        : d \in DeviceIds, t \in Tokens, n \in CustomNames }

\* the optional defaults a user may fill in the reconfiguration form
OptionalInputs ==
    { EmptyDict,
      [k \in {CONF_DEFAULT_TITLE} |-> "T"],
      [k \in {CONF_DEFAULT_TITLE, CONF_DEFAULT_ICON_URL, CONF_DEFAULT_GROUP_TYPE} |->
          IF k = CONF_DEFAULT_TITLE THEN "" ELSE IF k = CONF_DEFAULT_ICON_URL THEN "U" ELSE "G"] }

\* dict union, the right operand winning
Merge(a, b) ==
    [k \in (DOMAIN a) \cup (DOMAIN b) |-> IF k \in DOMAIN b THEN b[k] ELSE a[k]]

\* user_input of the reconfiguration form (options_schema)
OptionsInputs ==
    { Merge([k \in {CONF_DEVICE_ID, CONF_TOKEN} |-> IF k = CONF_DEVICE_ID THEN d ELSE t], o)
        : d \in DeviceIds, t \in Tokens, o \in OptionalInputs }

(***************************************************************************)
(* config_flow.py: validate_input.                                        *)
(***************************************************************************)
\* mutant: the 404 branch (lines 167-169) is missing
ValidateResult_No404(resp) ==
    IF resp.exc \in TransportErrors THEN "CannotConnect"
    ELSE IF resp.exc # "none" THEN "Exception"
    ELSE IF resp.status_code = 401 \/ resp.status_code = 403 THEN "InvalidAuth"
    ELSE IF resp.status_code # 200 THEN "CannotConnect"
    ELSE "ok"

\* mutant: every 2xx status is taken for success (line 170 tests >= 300)
ValidateResult_Any2xx(resp) ==
    IF resp.exc \in TransportErrors THEN "CannotConnect"
    ELSE IF resp.exc # "none" THEN "Exception"
    ELSE IF resp.status_code = 401 \/ resp.status_code = 403 THEN "InvalidAuth"
    ELSE IF resp.status_code = 404 THEN "InvalidAuth"
    ELSE IF resp.status_code >= 300 THEN "CannotConnect"
    ELSE "ok"

\* mutant: the status of the response is not looked at (lines 164-172 missing)
ValidateResult_NoStatusCheck(resp) ==
    IF resp.exc \in TransportErrors THEN "CannotConnect"
    ELSE IF resp.exc # "none" THEN "Exception"
    ELSE "ok"

\* lines 136-183: how the test call's outcome ends validate_input
ValidateResult(resp) ==
    IF resp.exc = "Timeout" THEN "CannotConnect"
    ELSE IF resp.exc = "ConnectionError" THEN "CannotConnect"
    ELSE IF resp.exc = "RequestException" THEN "CannotConnect"
    ELSE IF resp.exc # "none" THEN "Exception"
    ELSE IF resp.status_code = 401 \/ resp.status_code = 403 THEN "InvalidAuth"
    ELSE IF resp.status_code = 404 THEN "InvalidAuth"
    ELSE IF resp.status_code # 200 THEN "CannotConnect"
    ELSE "ok"

NotifyAlertPrefix == <<"N","o","t","i","f","y","!"," ","A","l","e","r","t"," ","(">>

\* mutant: the custom name is taken as typed, without strip()
ValidateTitle_NoStrip(data) ==
    LET custom_name == Get(data, CONF_NAME, <<>>)
    IN  IF custom_name # <<>> THEN custom_name
        ELSE NotifyAlertPrefix \o Upper(data[CONF_DEVICE_ID]) \o <<")">>

\* lines 189-193: the title of the entry
ValidateTitle(data) ==
    LET custom_name == Strip(Get(data, CONF_NAME, <<>>))
    IN  IF custom_name # <<>> THEN custom_name
        ELSE NotifyAlertPrefix \o Upper(data[CONF_DEVICE_ID]) \o <<")">>

\* the record of a call of validate_input
ValidateCall(data, resp) ==
    [device_id |-> data[CONF_DEVICE_ID], token |-> data[CONF_TOKEN],
     response |-> resp, result |-> ValidateResult(resp)]

\* mutant: a rejected token is reported on the token field
ErrorsFor_PerField(result) ==
    IF result = "CannotConnect" THEN [k \in {"base"} |-> "cannot_connect"]
    ELSE IF result = "InvalidAuth" THEN [k \in {CONF_TOKEN} |-> "invalid_auth"]
    ELSE IF result = "Exception" THEN [k \in {"base"} |-> "unknown"]
    ELSE [k \in {} |-> None]

\* lines 282-294 and 421-430: the error code a failed validation leaves on the form
ErrorsFor(result) ==
    IF result = "CannotConnect" THEN [k \in {"base"} |-> "cannot_connect"]
    ELSE IF result = "InvalidAuth" THEN [k \in {"base"} |-> "invalid_auth"]
    ELSE IF result = "Exception" THEN [k \in {"base"} |-> "unknown"]
    ELSE EmptyDict

(***************************************************************************)
(* State.                                                                  *)
(***************************************************************************)
IsEntry(e) == e \in DOMAIN entries

IsLoaded(e) == e \in DOMAIN entries /\ entries[e].state = "loaded"

\* the credentials part of an entry's data
Credentials(data) ==
    [device_id |-> data[CONF_DEVICE_ID], token |-> data[CONF_TOKEN]]

NoResponse == [exc |-> "none", status_code |-> 0]
NoValidate == [device_id |-> <<>>, token |-> "", response |-> NoResponse, result |-> "none"]
NoSend == [device_id |-> <<>>, token |-> "", message |-> "", kwargs |-> EmptyDict,
           payload |-> EmptyDict, posts |-> 0, response |-> NoResponse, log |-> "none",
           result |-> "none"]
NoFlow == [state |-> "NotStarted", entry_id |-> <<>>, errors |-> EmptyDict, shown |-> EmptyDict]

\* the identifiers the host hands out in the specifications below
InitialIds == {Id1}

Init ==
    /\ freeIds = InitialIds
    /\ entries = EmptyDict
    /\ hassData = EmptyDict
    /\ services = {}
    /\ sender = EmptyDict
    /\ tasks = {}
    /\ listeners = {}
    /\ userFlow = NoFlow
    /\ optFlow = NoFlow
    /\ lastValidate = NoValidate
    /\ lastSend = NoSend
    /\ posted = 0

(***************************************************************************)
(* config_flow.py: ConfigFlow.async_step_user                             *)
(***************************************************************************)
\* async_step_user(None): a new setup wizard shows its form (lines 260, 308-312)
StepUserShow ==
    /\ userFlow.state \in {"NotStarted", "Committed"}
    /\ optFlow.state # "AwaitingInput"
    /\ userFlow' = [state |-> "AwaitingInput", entry_id |-> <<>>,
                    errors |-> EmptyDict, shown |-> EmptyDict]
    /\ UNCHANGED <<freeIds, entries, hassData, services, sender, tasks, listeners,
                   optFlow, lastValidate, lastSend, posted>>

\* async_create_entry(title, data): the host stores a new entry under a fresh id
CreateEntry(e, title, data) ==
    Merge(entries, [k \in {e} |-> [state |-> "not_loaded", title |-> title,
                                   data |-> data, options |-> EmptyDict]])

\* async_step_user(user_input), the test call ending with resp (lines 262-312)
StepUserSubmit(user_input, resp) ==
    /\ userFlow.state = "AwaitingInput"
    /\ lastValidate' = ValidateCall(user_input, resp)
    /\ IF ValidateResult(resp) = "ok"
       THEN \E e \in freeIds :
               /\ freeIds' = freeIds \ {e}
               /\ entries' = CreateEntry(e, ValidateTitle(user_input), user_input)
               /\ userFlow' = [state |-> "Committed", entry_id |-> e,
                               errors |-> EmptyDict, shown |-> EmptyDict]
       ELSE /\ userFlow' = [state |-> "AwaitingInput", entry_id |-> <<>>,
                            errors |-> ErrorsFor(ValidateResult(resp)),
                            shown |-> EmptyDict]
            /\ UNCHANGED <<freeIds, entries>>
    /\ UNCHANGED <<hassData, services, sender, tasks, listeners, optFlow, lastSend, posted>>

\* the user closes the setup wizard without committing
UserAbandon ==
    /\ userFlow.state = "AwaitingInput"
    /\ userFlow' = NoFlow
    /\ UNCHANGED <<freeIds, entries, hassData, services, sender, tasks, listeners,
                   optFlow, lastValidate, lastSend, posted>>

(***************************************************************************)
(* config_flow.py: OptionsFlowHandler.async_step_init                     *)
(***************************************************************************)
\* lines 448-471: the defaults and suggested values of the reconfiguration form
OptionsDefaults(entry) ==
    [k \in {CONF_DEVICE_ID, CONF_TOKEN, CONF_DEFAULT_TITLE,
            CONF_DEFAULT_ICON_URL, CONF_DEFAULT_GROUP_TYPE} |->
        IF k = CONF_DEVICE_ID THEN Get(entry.data, CONF_DEVICE_ID, <<>>)
        ELSE IF k = CONF_TOKEN THEN Get(entry.data, CONF_TOKEN, "")
        ELSE Get(entry.options, k, "")]

\* async_step_init(None): the reconfiguration wizard of entry e shows its form
StepInitShow(e) ==
    /\ optFlow.state \in {"NotStarted", "Committed"}
    /\ userFlow.state # "AwaitingInput"
    /\ IsEntry(e)
    /\ optFlow' = [state |-> "AwaitingInput", entry_id |-> e,
                   errors |-> EmptyDict, shown |-> OptionsDefaults(entries[e])]
    /\ UNCHANGED <<freeIds, entries, hassData, services, sender, tasks, listeners,
                   userFlow, lastValidate, lastSend, posted>>

\* lines 398-401
CoreData(user_input) ==
    [k \in {CONF_DEVICE_ID, CONF_TOKEN} |-> user_input[k]]

\* lines 403-407
OptionsData(user_input) ==
    [k \in {CONF_DEFAULT_TITLE, CONF_DEFAULT_ICON_URL, CONF_DEFAULT_GROUP_TYPE} |->
        Get(user_input, k, "")]

\* mutant: only the device_id of the stored data is patched
UpdateEntry_KeepsToken(entry, info_title, core_data, options_data) ==
    [entry EXCEPT !.data = [core_data EXCEPT ![CONF_TOKEN] = entry.data[CONF_TOKEN]],
                  !.options = options_data]

\* mutant: the title validate_input returned is passed on to async_update_entry
UpdateEntry_SetsTitle(entry, info_title, core_data, options_data) ==
    [entry EXCEPT !.title = info_title, !.data = core_data, !.options = options_data]

\* lines 412-416: async_update_entry(entry, data=core_data, options=options_data);
\* the title in info (line 393) is not passed on
UpdateEntry(entry, info_title, core_data, options_data) ==
    [entry EXCEPT !.data = core_data, !.options = options_data]

\* mutant: async_setup_entry registers no update listener
NotifyListeners_None(e, old, new) == listeners

\* __init__.py line 121: the update listener of a loaded entry is called when
\* async_update_entry changed the entry; it schedules async_reload_entry
NotifyListeners(e, old, new) ==
    IF old.state = "loaded" /\ new # old THEN listeners \cup {e} ELSE listeners

\* the entry's reconfiguration wizard is open
Reconfiguring(e) == optFlow.state = "AwaitingInput" /\ optFlow.entry_id = e

\* async_step_init(user_input), the test call ending with resp (lines 389-482)
StepInitSubmit(user_input, resp) ==
    LET e == optFlow.entry_id IN
    /\ optFlow.state = "AwaitingInput"
    /\ lastValidate' = ValidateCall(user_input, resp)
    /\ IF ValidateResult(resp) = "ok"
       THEN LET updated == UpdateEntry(entries[e], ValidateTitle(user_input),
                                       CoreData(user_input), OptionsData(user_input))
            IN  /\ entries' = [entries EXCEPT ![e] = updated]
                /\ listeners' = NotifyListeners(e, entries[e], updated)
                /\ optFlow' = [state |-> "Committed", entry_id |-> e,
                               errors |-> EmptyDict, shown |-> EmptyDict]
       ELSE /\ optFlow' = [state |-> "AwaitingInput", entry_id |-> e,
                           errors |-> ErrorsFor(ValidateResult(resp)),
                           shown |-> OptionsDefaults(entries[e])]
            /\ UNCHANGED <<entries, listeners>>
    /\ UNCHANGED <<freeIds, hassData, services, sender, tasks, userFlow, lastSend, posted>>

\* the user closes the reconfiguration wizard without committing
OptAbandon ==
    /\ optFlow.state = "AwaitingInput"
    /\ optFlow' = NoFlow
    /\ UNCHANGED <<freeIds, entries, hassData, services, sender, tasks, listeners,
                   userFlow, lastValidate, lastSend, posted>>

(***************************************************************************)
(* __init__.py: async_setup_entry, async_reload_entry, async_unload_entry *)
(***************************************************************************)
\* lines 91-95: the record stored under the entry identifier
StoreCredentials(table, e, entry) ==
    Merge(table, [k \in {e} |->
        [device_id |-> entry.data[CONF_DEVICE_ID], token |-> entry.data[CONF_TOKEN]]])

\* lines 106-117: the discovery_info handed to the platform-load task
DiscoveryInfo(e, entry) ==
    [name |-> SetupServiceName(entry.title, e), entry_id |-> e]

\* async_setup_entry(hass, entry): the host calls it for an entry that is not loaded
SetupEntry(e) ==
    /\ IsEntry(e)
    /\ entries[e].state = "not_loaded"
    /\ hassData' = StoreCredentials(hassData, e, entries[e])
    /\ tasks' = tasks \cup {DiscoveryInfo(e, entries[e])}
    /\ entries' = [entries EXCEPT ![e].state = "loaded"]
    /\ UNCHANGED <<freeIds, services, sender, listeners, userFlow, optFlow,
                   lastValidate, lastSend, posted>>

\* dict.pop(key, None)
Pop(d, key) == [k \in (DOMAIN d) \ {key} |-> d[k]]

\* async_unload_entry, lines 170-173: the services left after async_remove
UnloadServices(e) == services \ {UnloadServiceName(e)}

\* async_unload_entry, line 183
UnloadData(e) == Pop(hassData, e)

\* async_reload_entry -> hass.config_entries.async_reload: the scheduled update
\* listener unloads the entry; the host then sets it up again (SetupEntry)
ReloadEntry(e) ==
    /\ e \in listeners
    /\ IsLoaded(e)
    /\ listeners' = listeners \ {e}
    /\ services' = UnloadServices(e)
    /\ hassData' = UnloadData(e)
    /\ entries' = [entries EXCEPT ![e].state = "not_loaded"]
    /\ UNCHANGED <<freeIds, sender, tasks, userFlow, optFlow, lastValidate, lastSend, posted>>

\* the user removes a loaded entry: the host calls async_unload_entry and
\* deletes the entry; its identifier is never handed out again
RemoveEntry(e) ==
    /\ IsLoaded(e)
    /\ ~Reconfiguring(e)
    /\ listeners' = listeners \ {e}
    /\ services' = UnloadServices(e)
    /\ hassData' = UnloadData(e)
    /\ entries' = Pop(entries, e)
    /\ UNCHANGED <<freeIds, sender, tasks, userFlow, optFlow, lastValidate, lastSend, posted>>

(***************************************************************************)
(* notify.py                                                               *)
(***************************************************************************)
\* NotifyAPIService.__init__ (lines 133-135); name is the service name the
\* platform registers the service under (discovery_info[CONF_NAME])
NotifyAPIService(device_id, token, name) ==
    [device_id |-> device_id, token |-> token, name |-> name]

\* discovery_info = None (the platform is set up outside a config entry); kept
\* apart from every dict
NoDiscoveryInfo == [k \in {"None"} |-> <<>>]

\* a discovery_info that has no entry_id
NoEntryIdInfo == [k \in {CONF_NAME} |-> <<"x">>]

StrayInfos == {NoDiscoveryInfo, NoEntryIdInfo}

\* mutant: the Sender is built although the table has no record of the entry
AsyncGetService_NoCredentialCheck(discovery_info) ==
    IF discovery_info = NoDiscoveryInfo THEN {}
    ELSE IF "entry_id" \notin DOMAIN discovery_info THEN {}
    ELSE IF discovery_info.entry_id \notin DOMAIN hassData
    THEN {NotifyAPIService(<<>>, "", discovery_info.name)}
    ELSE LET credentials == hassData[discovery_info.entry_id]
         IN  {NotifyAPIService(credentials.device_id, credentials.token, discovery_info.name)}

\* async_get_service, lines 90-112: the Sender it returns, as a set that is empty
\* when it returns None
AsyncGetService(discovery_info) ==
    IF discovery_info = NoDiscoveryInfo THEN {}
    ELSE IF "entry_id" \notin DOMAIN discovery_info THEN {}
    ELSE IF discovery_info.entry_id \notin DOMAIN hassData THEN {}
    ELSE LET credentials == hassData[discovery_info.entry_id]
         IN  {NotifyAPIService(credentials.device_id, credentials.token, discovery_info.name)}

\* the platform-load task of discovery_info t runs async_get_service; the host
\* registers the Sender it returns under the name in discovery_info
PlatformLoad(t) ==
    /\ t \in tasks
    /\ tasks' = tasks \ {t}
    /\ IF AsyncGetService(t) # {}
       THEN \E service \in AsyncGetService(t) :
                /\ sender' = Merge(sender, [k \in {t.entry_id} |-> service])
                /\ services' = services \cup {service.name}
       ELSE UNCHANGED <<sender, services>>
    /\ UNCHANGED <<freeIds, entries, hassData, listeners, userFlow, optFlow, lastValidate, lastSend, posted>>

\* the host sets the platform up with a discovery_info that names no entry
HostPlatformSetup(info) ==
    /\ info \notin tasks
    /\ tasks' = tasks \cup {info}
    /\ UNCHANGED <<freeIds, entries, hassData, services, sender, listeners, userFlow,
                   optFlow, lastValidate, lastSend, posted>>

\* mutant: the optional fields are tested with "is not None"
BuildPayload_NotNone(message, title, icon_url, group_type) ==
    LET p0 == [k \in {"text"} |-> message]
        p1 == IF title # None THEN Merge(p0, [k \in {"title"} |-> title]) ELSE p0
        p2 == IF icon_url # None THEN Merge(p1, [k \in {"iconUrl"} |-> icon_url]) ELSE p1
        p3 == IF group_type # None THEN Merge(p2, [k \in {"groupType"} |-> group_type]) ELSE p2
    IN  p3

\* _send_notification, lines 212-222
BuildPayload(message, title, icon_url, group_type) ==
    LET p0 == [k \in {"text"} |-> message]
        p1 == IF Truthy(title) THEN Merge(p0, [k \in {"title"} |-> title]) ELSE p0
        p2 == IF Truthy(icon_url) THEN Merge(p1, [k \in {"iconUrl"} |-> icon_url]) ELSE p1
        p3 == IF Truthy(group_type) THEN Merge(p2, [k \in {"groupType"} |-> group_type]) ELSE p2
    IN  p3

\* _send_notification, lines 227-254: what the call logs for an outcome
SendLog(resp) ==
    IF resp.exc = "none"
    THEN (IF resp.status_code = 200 THEN "info" ELSE "error")
    ELSE IF resp.exc \in TransportErrors THEN "error"
    ELSE "exception"

\* mutant: the last handler, "except Exception" (lines 253-254), is missing
SendResult_NoCatchAll(resp) ==
    IF resp.exc = "none" THEN "returned"
    ELSE IF resp.exc \in TransportErrors THEN "returned"
    ELSE "raised"

\* _send_notification, lines 227-254: every outcome is handled inside the call
SendResult(resp) ==
    IF resp.exc = "none" THEN "returned"
    ELSE IF resp.exc = "Timeout" THEN "returned"
    ELSE IF resp.exc = "ConnectionError" THEN "returned"
    ELSE IF resp.exc = "RequestException" THEN "returned"
    ELSE "returned"

\* mutant: the token is read from the credential table when the request is made
RequestCredentials_RereadsToken(e) ==
    [device_id |-> sender[e].device_id,
     token |-> IF e \in DOMAIN hassData THEN hassData[e].token ELSE sender[e].token]

\* _send_notification, lines 225 and 232: the URL carries self._device_id and the
\* query self._token, both set in __init__ (lines 134-135)
RequestCredentials(e) ==
    [device_id |-> sender[e].device_id, token |-> sender[e].token]

\* the number of service calls a behaviour follows
MaxPosts == 2

\* mutant: a POST that did not return 200 is repeated once
Posts_Retry(resp) == IF resp = Responded(200) THEN 1 ELSE 2

\* _send_notification, lines 227-254: requests.post is called once, in no loop,
\* and no handler calls it again
Posts(resp) == 1

\* send_message(message, **kwargs) on the service of entry e (lines 160-180),
\* the POST ending with resp
SendMessage(e, message, kwargs, resp) ==
    /\ e \in DOMAIN sender
    /\ sender[e].name \in services
    /\ posted < MaxPosts
    /\ posted' = posted + Posts(resp)
    /\ LET title == Get(kwargs, ATTR_TITLE, None)
           data == Get(kwargs, ATTR_DATA, EmptyDict)
           icon_url == Get(data, ATTR_ICON_URL, None)
           group_type == Get(data, ATTR_GROUP_TYPE, None)
       IN  lastSend' = [device_id |-> RequestCredentials(e).device_id,
                        token |-> RequestCredentials(e).token,
                        message |-> message, kwargs |-> kwargs,
                        payload |-> BuildPayload(message, title, icon_url, group_type),
                        posts |-> Posts(resp), response |-> resp, log |-> SendLog(resp),
                        result |-> SendResult(resp)]
    /\ UNCHANGED <<freeIds, entries, hassData, services, sender, tasks, listeners,
                   userFlow, optFlow, lastValidate>>

\* arguments of the notify service call
Messages == {"", "hello"}
TitleArgs == {EmptyDict, [k \in {ATTR_TITLE} |-> ""], [k \in {ATTR_TITLE} |-> "T"]}
DataDicts ==
    { EmptyDict,
      [k \in {ATTR_ICON_URL} |-> "U"],
      [k \in {ATTR_ICON_URL, ATTR_GROUP_TYPE} |-> IF k = ATTR_ICON_URL THEN "" ELSE "G"],
      [k \in {ATTR_ICON_URL, ATTR_GROUP_TYPE} |-> IF k = ATTR_ICON_URL THEN "U" ELSE "G"] }
DataArgs == {EmptyDict} \cup {[k \in {ATTR_DATA} |-> d] : d \in DataDicts}
Kwargs == {Merge(t, d) : t \in TitleArgs, d \in DataArgs}

(***************************************************************************)
(* The integration as a whole. The wizards, the host's lifecycle calls    *)
(* and the service calls, over given sets of inputs.                      *)
(***************************************************************************)
Wizards(userInputs, optionsInputs, outcomes) ==
    \/ StepUserShow
    \/ \E user_input \in userInputs, resp \in outcomes : StepUserSubmit(user_input, resp)
    \/ UserAbandon
    \/ \E e \in EntryIds : StepInitShow(e)
    \/ \E user_input \in optionsInputs, resp \in outcomes : StepInitSubmit(user_input, resp)
    \/ OptAbandon

Reloads ==
    \/ \E e \in EntryIds : SetupEntry(e)
    \/ \E t \in tasks : PlatformLoad(t)
    \/ \E e \in EntryIds : ReloadEntry(e)

Sends(messages, kwargs, outcomes) ==
    \E e \in EntryIds, message \in messages, kw \in kwargs, resp \in outcomes :
        SendMessage(e, message, kw, resp)

\* Spec: the whole lifecycle of an entry, with one representative of the accepted
\* and of the rejected submissions
SomeCredentials == {<<Dev1, "tok1">>, <<Dev2, "tok2">>}
SomeUserInputs ==
    {u \in UserInputs : /\ <<u[CONF_DEVICE_ID], u[CONF_TOKEN]>> \in SomeCredentials
                        /\ Get(u, CONF_NAME, DansPhone) \in {DansPhone, <<"(","!",")">>}}
SomeOptionsInputs ==
    {u \in OptionsInputs : /\ <<u[CONF_DEVICE_ID], u[CONF_TOKEN]>> \in SomeCredentials
                           /\ DOMAIN u \subseteq {CONF_DEVICE_ID, CONF_TOKEN, CONF_DEFAULT_TITLE}}
SomeOutcomes == {Responded(200), Responded(401)}

Next ==
    \/ Wizards(SomeUserInputs, SomeOptionsInputs, SomeOutcomes)
    \/ Reloads
    \/ \E e \in EntryIds : RemoveEntry(e)
    \/ Sends({"hello"}, {[k \in {ATTR_TITLE} |-> "T"]}, {Responded(200)})

Spec == Init /\ [][Next]_vars

\* FairSpec: the host runs what it scheduled: the setup of an entry that is not
\* loaded, the platform-load tasks, and the reload an update listener asked for
Fairness ==
    /\ \A e \in EntryIds : WF_vars(SetupEntry(e))
    /\ \A e \in EntryIds : WF_vars(ReloadEntry(e))
    /\ WF_vars(\E t \in tasks : PlatformLoad(t))

NextFair ==
    \/ Wizards(SomeUserInputs, SomeOptionsInputs, {Responded(200)})
    \/ Reloads
    \/ \E e \in EntryIds : RemoveEntry(e)

FairSpec == Init /\ [][NextFair]_vars /\ Fairness

\* TitleSpec: the two wizards over every form input, custom names included
NextTitle == Wizards(UserInputs, SomeOptionsInputs, SomeOutcomes)

TitleSpec == Init /\ [][NextTitle]_vars

\* DefaultsSpec: reconfigurations that store a default title, and service calls
\* with and without a title
NextDefaults ==
    \/ Wizards(SomeUserInputs, SomeOptionsInputs, {Responded(200)})
    \/ Reloads
    \/ Sends({"hello"}, {EmptyDict, [k \in {ATTR_TITLE} |-> "X"]}, {Responded(200)})

DefaultsSpec == Init /\ [][NextDefaults]_vars

\* MultiSpec: two entries, added one after the other through the setup wizard
InitMulti ==
    /\ freeIds = EntryIds
    /\ entries = EmptyDict
    /\ hassData = EmptyDict
    /\ services = {}
    /\ sender = EmptyDict
    /\ tasks = {}
    /\ listeners = {}
    /\ userFlow = NoFlow
    /\ optFlow = NoFlow
    /\ lastValidate = NoValidate
    /\ lastSend = NoSend
    /\ posted = 0

MultiInputs ==
    {u \in UserInputs : /\ <<u[CONF_DEVICE_ID], u[CONF_TOKEN]>> \in SomeCredentials
                        /\ Get(u, CONF_NAME, DansPhone) = DansPhone}

NextMulti ==
    \/ StepUserShow
    \/ \E user_input \in MultiInputs : StepUserSubmit(user_input, Responded(200))
    \/ \E e \in EntryIds : SetupEntry(e)
    \/ \E t \in tasks : PlatformLoad(t)
    \/ \E e \in EntryIds : RemoveEntry(e)
    \/ Sends({"hello"}, {EmptyDict}, {Responded(200)})

MultiSpec == InitMulti /\ [][NextMulti]_vars

\* LoadSpec: the lifecycle of an entry, and platform set-ups that name no entry
NextLoad ==
    \/ Wizards(SomeUserInputs, SomeOptionsInputs, {Responded(200)})
    \/ Reloads
    \/ \E e \in EntryIds : RemoveEntry(e)
    \/ \E info \in StrayInfos : HostPlatformSetup(info)

LoadSpec == Init /\ [][NextLoad]_vars

\* WizardSpec: the two wizards over every outcome of the test call
NextWizard ==
    \/ Wizards(SomeUserInputs, SomeOptionsInputs, Outcomes)
    \/ Reloads

WizardSpec == Init /\ [][NextWizard]_vars

\* SenderSpec: a loaded entry whose service is registered, called with every
\* combination of arguments and every outcome of the POST
InitSender ==
    \E d \in DeviceIds, t \in Tokens :
        LET data == [k \in {CONF_DEVICE_ID, CONF_TOKEN} |-> IF k = CONF_DEVICE_ID THEN d ELSE t]
            entry == [state |-> "loaded", title |-> ValidateTitle(data),
                      data |-> data, options |-> EmptyDict]
            name == SetupServiceName(entry.title, Id1)
        IN  /\ freeIds = {}
            /\ entries = [k \in {Id1} |-> entry]
            /\ hassData = StoreCredentials(EmptyDict, Id1, entry)
            /\ services = {name}
            /\ sender = [k \in {Id1} |-> NotifyAPIService(d, t, name)]
            /\ tasks = {}
            /\ listeners = {}
            /\ userFlow = [state |-> "Committed", entry_id |-> Id1,
                           errors |-> EmptyDict, shown |-> EmptyDict]
            /\ optFlow = NoFlow
            /\ lastValidate = ValidateCall(data, Responded(200))
            /\ lastSend = NoSend
            /\ posted = 0

NextSender == Sends(Messages, Kwargs, Outcomes)

SenderSpec == InitSender /\ [][NextSender]_vars

(***************************************************************************)
(* Properties.                                                             *)
(***************************************************************************)
\* what the host persists of its entries
Persisted ==
    [e \in DOMAIN entries |->
        [title |-> entries[e].title, data |-> entries[e].data, options |-> entries[e].options]]

\* a step in which an open wizard handled a submission that failed validation
FailedSubmit ==
    /\ lastValidate'.result # "ok"
    /\ \/ lastValidate' # lastValidate
       \/ userFlow.state = "AwaitingInput" /\ userFlow'.state = "AwaitingInput"
            /\ userFlow' # userFlow
       \/ optFlow.state = "AwaitingInput" /\ optFlow'.state = "AwaitingInput"
            /\ optFlow' # optFlow

\* C1: in both wizards a step persists something (creates an entry, changes an
\* entry's data or options) only if the test call of that step returned HTTP 200,
\* and the wizard is then Committed; a submission whose test call ended any other
\* way persists nothing and leaves the wizard in AwaitingInput, where the next
\* submission is accepted.
C1_CommitOnlyOn200 ==
    [][ /\ (Persisted' # Persisted) =>
              /\ lastValidate'.response = Responded(200)
              /\ \/ userFlow.state = "AwaitingInput" /\ userFlow'.state = "Committed"
                 \/ optFlow.state = "AwaitingInput" /\ optFlow'.state = "Committed"
        /\ (lastValidate' # lastValidate /\ lastValidate'.response # Responded(200)) =>
              lastValidate'.result # "ok"
        /\ FailedSubmit =>
              /\ Persisted' = Persisted
              /\ freeIds' = freeIds
              /\ hassData' = hassData
              /\ userFlow'.state = userFlow.state
              /\ optFlow'.state = optFlow.state
              /\ userFlow'.state = "AwaitingInput" \/ optFlow'.state = "AwaitingInput"
      ]_vars

\* C1 witness: the reconfiguration wizard of an entry is in AwaitingInput with an
\* error after a rejected submission, and the entry still has its first data
C1_Witness ==
    /\ optFlow.state = "AwaitingInput"
    /\ optFlow.errors = [k \in {"base"} |-> "cannot_connect"]
    /\ lastValidate.response = Responded(204)
    /\ Id1 \in DOMAIN entries
    /\ CONF_NAME \in DOMAIN entries[Id1].data
    /\ entries[Id1].options = EmptyDict

\* C2: a test call answered with 401, 403 or 404 ends validate_input with
\* InvalidAuth (not with CannotConnect, not with success).
C2_RejectedIsInvalidAuth ==
    (lastValidate.response.exc = "none" /\ lastValidate.response.status_code \in {401, 403, 404})
        => lastValidate.result = "InvalidAuth"

\* C2 witness: a 404 answer ended validate_input with InvalidAuth
C2_Witness ==
    lastValidate.response = Responded(404) /\ lastValidate.result = "InvalidAuth"

\* C3: a test call that ends in a transport-level failure, or returns a status
\* other than 200, 401, 403, 404, ends validate_input with CannotConnect.
C3_OtherFailuresAreCannotConnect ==
    (\/ lastValidate.response.exc \in TransportErrors
     \/ /\ lastValidate # NoValidate
        /\ lastValidate.response.exc = "none"
        /\ lastValidate.response.status_code \notin {200, 401, 403, 404})
        => lastValidate.result = "CannotConnect"

\* C3 witness: a 204 answer ended validate_input with CannotConnect
C3_Witness ==
    lastValidate.response = Responded(204) /\ lastValidate.result = "CannotConnect"

\* the credentials a submission of Spec may carry, as records
SubmittedCredentials ==
    {[device_id |-> c[1], token |-> c[2]] : c \in SomeCredentials}

\* the reconfiguration wizard commits in this step
ReconfigCommit(e) ==
    /\ optFlow.state = "AwaitingInput"
    /\ optFlow'.state = "Committed"
    /\ optFlow'.entry_id = e

\* C4: a successful reconfiguration leaves in the entry's data the device_id and
\* the token of that submission, both; the credential table is written only as a
\* whole record copied from the entry's data; and no state holds, in an entry, in
\* the table or in a Sender, the device_id of one submission with the token of
\* another.
C4_WholesaleReplace ==
    [][ \A e \in EntryIds :
          /\ ReconfigCommit(e) =>
                /\ e \in DOMAIN entries'
                /\ DOMAIN entries'[e].data = {CONF_DEVICE_ID, CONF_TOKEN}
                /\ entries'[e].data[CONF_DEVICE_ID] = lastValidate'.device_id
                /\ entries'[e].data[CONF_TOKEN] = lastValidate'.token
          /\ (e \in DOMAIN hassData' /\ (e \notin DOMAIN hassData \/ hassData'[e] # hassData[e])) =>
                /\ e \in DOMAIN entries
                /\ hassData'[e] = Credentials(entries[e].data)
          /\ e \in DOMAIN entries' => Credentials(entries'[e].data) \in SubmittedCredentials
          /\ e \in DOMAIN hassData' => hassData'[e] \in SubmittedCredentials
          /\ e \in DOMAIN sender' =>
                [device_id |-> sender'[e].device_id, token |-> sender'[e].token]
                    \in SubmittedCredentials
      ]_vars

\* C4 witness: a reconfiguration has committed new credentials, both fields
\* differing from the record the table still holds
C4_Witness ==
    /\ optFlow.state = "Committed"
    /\ IsLoaded(Id1)
    /\ Id1 \in listeners
    /\ Credentials(entries[Id1].data) = [device_id |-> Dev2, token |-> "tok2"]
    /\ Id1 \in DOMAIN hassData
    /\ hassData[Id1] = [device_id |-> Dev1, token |-> "tok1"]

\* the host unloads entry e in this step (reload or removal)
Unloaded(e) == IsLoaded(e) /\ ~IsLoaded(e)'

\* C5: after async_unload_entry the service name async_setup_entry computed for
\* the entry is no longer registered, and the table has no record of the entry.
C5_TeardownUnregisters ==
    [][ \A e \in EntryIds :
          Unloaded(e) =>
              /\ SetupServiceName(entries[e].title, e) \notin services'
              /\ e \notin DOMAIN hassData'
      ]_vars

\* C8: the title of an entry never changes while the entry exists, and every
\* Sender built for the entry is registered under the name of the one before it:
\* reconfiguration and reload keep the service name.
C8_ServiceNameKept ==
    [][ \A e \in EntryIds :
          /\ (e \in DOMAIN entries /\ e \in DOMAIN entries') =>
                entries'[e].title = entries[e].title
          /\ (e \in DOMAIN sender /\ e \in DOMAIN sender') =>
                sender'[e].name = sender[e].name
      ]_vars

\* C8 witness: after a reconfiguration to other credentials and the reload, the
\* rebuilt Sender of the entry titled "Dan's Phone!" is registered under the name
\* it had
C8_Witness ==
    /\ IsLoaded(Id1)
    /\ entries[Id1].title = DansPhone
    /\ CONF_NAME \notin DOMAIN entries[Id1].data
    /\ entries[Id1].options # EmptyDict
    /\ Id1 \in DOMAIN sender
    /\ sender[Id1].device_id = entries[Id1].data[CONF_DEVICE_ID]
    /\ sender[Id1].name = FriendlyName(DansPhone)
    /\ sender[Id1].name \in services
    /\ tasks = {}
    /\ listeners = {}

\* the table and the Sender of entry e hold the credentials c
Reloaded(e, c) ==
    /\ IsLoaded(e)
    /\ e \in DOMAIN hassData
    /\ hassData[e] = c
    /\ e \in DOMAIN sender
    /\ [device_id |-> sender[e].device_id, token |-> sender[e].token] = c

\* what an entry of FairSpec may hold as data and options
Configs ==
    {[data |-> d, options |-> o] :
        d \in SomeUserInputs \cup {CoreData(u) : u \in SomeOptionsInputs},
        o \in {EmptyDict} \cup {OptionsData(u) : u \in SomeOptionsInputs}}

Config(e) == [data |-> entries[e].data, options |-> entries[e].options]

\* C9: once an entry holds data and options r (a reconfiguration has changed the
\* record to r), eventually the entry is loaded again with the table record and
\* the Sender built from it holding the credentials of r, unless the entry is
\* removed or reconfigured again before.
C9_ReloadFollows ==
    \A e \in InitialIds : \A r \in Configs :
        (e \in DOMAIN entries /\ Config(e) = r)
            ~> (\/ e \notin DOMAIN entries
                \/ Config(e) # r
                \/ Reloaded(e, Credentials(r.data)))

\* C9 witness: the reload after a reconfiguration is done: table and Sender of
\* the reconfigured entry hold the new credentials
C9_Witness ==
    /\ Reloaded(Id1, [device_id |-> Dev2, token |-> "tok2"])
    /\ CONF_NAME \notin DOMAIN entries[Id1].data
    /\ entries[Id1].title = NotifyAlertPrefix \o Upper(Dev1) \o <<")">>
    /\ listeners = {}
    /\ tasks = {}

\* the name the specification derives from a title: lower-case, spaces to underscores,
\* the characters ! ( ) . dropped
RECURSIVE ClaimedName(_)
ClaimedName(title) ==
    IF title = <<>> THEN <<>>
    ELSE LET c == LowerChar(Head(title))
         IN  (IF c = " " THEN <<"_">>
              ELSE IF c \in {"!", "(", ")", "."} THEN <<>>
              ELSE <<c>>) \o ClaimedName(Tail(title))

DansPhoneName == <<"d","a","n","s","_","p","h","o","n","e">>

\* C10: the service name handed to the platform is the title lower-cased, with
\* spaces replaced by underscores and ! ( ) . stripped; "Dan's Phone!" gives
\* "dans_phone"; an empty derived name gives a fallback that contains the first 8
\* characters of the entry identifier.
C10_ServiceNameDerivation ==
    \A t \in tasks :
        t.entry_id \in DOMAIN entries =>
            LET title == entries[t.entry_id].title IN
            /\ ClaimedName(title) # <<>> => t.name = ClaimedName(title)
            /\ title = DansPhone => t.name = DansPhoneName
            /\ ClaimedName(title) = <<>> => Contains(t.name, Slice(t.entry_id, 8))

\* C6: send_message has returned normally after every call, whatever the outcome
\* of the POST and whatever the arguments; a failure shows in the log only.
C6_SendNeverRaises ==
    lastSend # NoSend =>
        /\ lastSend.result = "returned"
        /\ lastSend.response # Responded(200) => lastSend.log \in {"error", "exception"}

\* C6 witness: a call whose POST raised an exception that is no request
\* exception has returned
C6_Witness ==
    /\ lastSend.response = Raised("Exception")
    /\ lastSend.result = "returned"
    /\ ATTR_DATA \in DOMAIN lastSend.kwargs

\* the optional arguments of the last service call
ArgTitle == Get(lastSend.kwargs, ATTR_TITLE, None)
ArgIconUrl == Get(Get(lastSend.kwargs, ATTR_DATA, EmptyDict), ATTR_ICON_URL, None)
ArgGroupType == Get(Get(lastSend.kwargs, ATTR_DATA, EmptyDict), ATTR_GROUP_TYPE, None)
NonEmpty(v) == v \notin {None, ""}

\* C7: the payload has text equal to the message, and the keys title, iconUrl and
\* groupType exactly for the arguments that are non-empty strings, each with the
\* argument's value, and no other key.
C7_PayloadKeys ==
    lastSend # NoSend =>
        LET p == lastSend.payload IN
        /\ DOMAIN p = {"text"} \cup (IF NonEmpty(ArgTitle) THEN {"title"} ELSE {})
                               \cup (IF NonEmpty(ArgIconUrl) THEN {"iconUrl"} ELSE {})
                               \cup (IF NonEmpty(ArgGroupType) THEN {"groupType"} ELSE {})
        /\ p["text"] = lastSend.message
        /\ "title" \in DOMAIN p => p["title"] = ArgTitle
        /\ "iconUrl" \in DOMAIN p => p["iconUrl"] = ArgIconUrl
        /\ "groupType" \in DOMAIN p => p["groupType"] = ArgGroupType

\* C7 witness: an empty message with an empty title, an empty icon_url and a
\* group_type gives the payload {text: "", groupType: "G"}
C7_Witness ==
    /\ lastSend # NoSend
    /\ lastSend.message = ""
    /\ ArgTitle = ""
    /\ ArgIconUrl = ""
    /\ lastSend.payload = [k \in {"text", "groupType"} |-> IF k = "text" THEN "" ELSE "G"]

\* the setup wizard creates entry e in this step
Created(e) == e \notin DOMAIN entries /\ e \in DOMAIN entries'

Blank(name) == \A i \in 1..Len(name) : name[i] \in {" ", "\t", "\n"}

\* t is name without its leading and trailing whitespace
Trimmed(name, t) ==
    \E i, j \in 1..Len(name) :
        /\ t = SubSeq(name, i, j)
        /\ name[i] \notin {" ", "\t", "\n"}
        /\ name[j] \notin {" ", "\t", "\n"}
        /\ \A k \in 1..Len(name) : (k < i \/ k > j) => name[k] \in {" ", "\t", "\n"}

DefaultTitle(device_id) ==
    <<"N","o","t","i","f","y","!"," ","A","l","e","r","t"," ","(">> \o Upper(device_id) \o <<")">>

\* C11 as stated: an entry is created with the custom name verbatim as its title
\* whenever the name is non-blank, and otherwise with "Notify! Alert (<device_id
\* uppercased>)".
C11_TitleVerbatim ==
    [][ \A e \in EntryIds :
          Created(e) =>
              LET data == entries'[e].data
                  name == Get(data, CONF_NAME, <<>>)
              IN  IF Blank(name)
                  THEN entries'[e].title = DefaultTitle(data[CONF_DEVICE_ID])
                  ELSE entries'[e].title = name
      ]_vars

\* C11: an entry is created with the custom name, its leading and trailing
\* whitespace removed, as its title whenever the name is non-blank, and otherwise
\* (name absent, empty or only whitespace) with "Notify! Alert (<device_id
\* uppercased>)"; device_id "abc123" gives "Notify! Alert (ABC123)".
C11_TitleStripped ==
    [][ \A e \in EntryIds :
          Created(e) =>
              LET data == entries'[e].data
                  name == Get(data, CONF_NAME, <<>>)
              IN  /\ IF Blank(name)
                     THEN entries'[e].title = DefaultTitle(data[CONF_DEVICE_ID])
                     ELSE Trimmed(name, entries'[e].title)
                  /\ (Blank(name) /\ data[CONF_DEVICE_ID] = Dev1) =>
                        entries'[e].title = <<"N","o","t","i","f","y","!"," ","A","l","e","r","t",
                                              " ","(","A","B","C","1","2","3",")">>
      ]_vars

\* C11 witness: the custom name " D " was submitted and the entry is titled "D"
C11_Witness ==
    /\ Id1 \in DOMAIN entries
    /\ Get(entries[Id1].data, CONF_NAME, <<>>) = PaddedName
    /\ entries[Id1].title = <<"D">>

\* C12: every step that is a call of send_message issues exactly one POST,
\* whatever its outcome, and no other step issues one; a call with the arguments
\* of the call before it, on the same Sender, sends the same payload to the same
\* device, so that two such calls have issued exactly two requests with identical
\* payloads.
C12_OnePostPerSend ==
    [][ /\ posted' \in {posted, posted + 1}
        /\ (lastSend' # lastSend) => posted' = posted + 1
        /\ (posted' = posted + 1) =>
              /\ lastSend'.posts = 1
              /\ lastSend'.response \in Outcomes
              /\ lastSend'.payload["text"] = lastSend'.message
              /\ (/\ posted = 1
                  /\ lastSend'.message = lastSend.message
                  /\ lastSend'.kwargs = lastSend.kwargs
                  /\ lastSend'.device_id = lastSend.device_id
                  /\ lastSend'.token = lastSend.token) =>
                      /\ posted' = 2
                      /\ lastSend'.payload = lastSend.payload
      ]_vars

\* C12 witness: two calls have issued two POSTs, the second after a first that
\* timed out or not, and the last one ended in a connection error
C12_Witness ==
    /\ posted = 2
    /\ lastSend.posts = 1
    /\ lastSend.response = Raised("ConnectionError")
    /\ lastSend.message = "hello"

\* the wizard that is showing its form after this step
OpenFlow == IF optFlow'.state = "AwaitingInput" THEN optFlow' ELSE userFlow'

\* C13: after a failed submit, in either wizard, the form shown again carries
\* exactly one error code, under the key base: cannot_connect after CannotConnect,
\* invalid_auth after InvalidAuth, unknown after any other exception; the wizard
\* step ends with the form shown (AwaitingInput) in each case.
C13_OneBaseError ==
    [][ FailedSubmit =>
          /\ OpenFlow.state = "AwaitingInput"
          /\ DOMAIN OpenFlow.errors = {"base"}
          /\ lastValidate'.result \in {"CannotConnect", "InvalidAuth", "Exception"}
          /\ lastValidate'.result = "CannotConnect" => OpenFlow.errors["base"] = "cannot_connect"
          /\ lastValidate'.result = "InvalidAuth" => OpenFlow.errors["base"] = "invalid_auth"
          /\ lastValidate'.result = "Exception" => OpenFlow.errors["base"] = "unknown"
          /\ lastValidate'.response.exc \notin {"none", "Timeout", "ConnectionError",
                                                "RequestException"}
                => OpenFlow.errors["base"] = "unknown"
      ]_vars

\* C13 witness: the reconfiguration wizard shows its form with the code unknown
\* after the test call raised an exception that is no request exception
C13_Witness ==
    /\ optFlow.state = "AwaitingInput"
    /\ optFlow.errors = [k \in {"base"} |-> "unknown"]
    /\ lastValidate.response = Raised("Exception")
    /\ lastValidate.result = "Exception"

\* C14: after a failed submit, in either wizard, the form shown again is filled
\* with the device_id and the token of the failed submission.
C14_FormRetainsInput ==
    [][ FailedSubmit =>
          /\ OpenFlow.state = "AwaitingInput"
          /\ CONF_DEVICE_ID \in DOMAIN OpenFlow.shown
          /\ CONF_TOKEN \in DOMAIN OpenFlow.shown
          /\ OpenFlow.shown[CONF_DEVICE_ID] = lastValidate'.device_id
          /\ OpenFlow.shown[CONF_TOKEN] = lastValidate'.token
      ]_vars

\* entry e is set up from its present data and options, with nothing pending
Settled(e) ==
    /\ IsLoaded(e)
    /\ e \notin listeners
    /\ tasks = {}
    /\ Reloaded(e, Credentials(entries[e].data))

\* the value the payload of a call has to carry for an optional field: the
\* argument of the call if it is non-empty, else the stored default
Effective(arg, default) == IF arg \notin {None, ""} THEN arg ELSE default

\* the payload p carries v under key, or lacks key if v is empty
Carries(p, key, v) ==
    IF v = "" THEN key \notin DOMAIN p ELSE key \in DOMAIN p /\ p[key] = v

\* C15: a call of the service of an entry that is set up from its stored options
\* sends, for title, iconUrl and groupType, the value given in the call, and the
\* entry's stored default where the call gives none.
C15_DefaultsApply ==
    [][ \A e \in DOMAIN entries :
          (posted' = posted + 1 /\ Settled(e)) =>
              LET opts == entries[e].options
                  kw == lastSend'.kwargs
                  data == Get(kw, ATTR_DATA, EmptyDict)
                  p == lastSend'.payload
              IN  /\ Carries(p, "title", Effective(Get(kw, ATTR_TITLE, None),
                                                    Get(opts, CONF_DEFAULT_TITLE, "")))
                  /\ Carries(p, "iconUrl", Effective(Get(data, ATTR_ICON_URL, None),
                                                      Get(opts, CONF_DEFAULT_ICON_URL, "")))
                  /\ Carries(p, "groupType", Effective(Get(data, ATTR_GROUP_TYPE, None),
                                                        Get(opts, CONF_DEFAULT_GROUP_TYPE, "")))
      ]_vars

\* C16: any two entries that are loaded at the same time, each with its Sender
\* built, have Senders registered under different service names.
C16_DistinctServiceNames ==
    \A e1, e2 \in DOMAIN sender :
        (e1 # e2 /\ IsLoaded(e1) /\ IsLoaded(e2)) => sender[e1].name # sender[e2].name

\* C17: whatever reconfigurations, reloads and removals a call of the service is
\* interleaved with, its request carries the device_id and the token of one
\* submission, the ones its Sender was built with.
C17_RequestFromOneRecord ==
    [][ (posted' = posted + 1) =>
          /\ [device_id |-> lastSend'.device_id, token |-> lastSend'.token]
                \in SubmittedCredentials
          /\ \E e \in DOMAIN sender :
                /\ lastSend'.device_id = sender[e].device_id
                /\ lastSend'.token = sender[e].token
      ]_vars

\* C17 witness: a call made after a reconfiguration to other credentials and
\* the setup that stored them, but before the Sender was rebuilt, carried the
\* old device_id with the old token
C17_Witness ==
    /\ posted > 0
    /\ lastSend.device_id = Dev1
    /\ lastSend.token = "tok1"
    /\ Id1 \in DOMAIN hassData
    /\ hassData[Id1] = [device_id |-> Dev2, token |-> "tok2"]
    /\ Id1 \in DOMAIN sender
    /\ sender[Id1].device_id = Dev1

\* the platform-load tasks that run in this step
Ran == tasks \ tasks'

\* C18: a Sender is built for an entry only in a step that finds the entry's
\* record in the credential table, and with the credentials of that record; a
\* platform-load task that runs without discovery info, without entry identifier,
\* or after the record of its entry was removed, builds no Sender and registers
\* no service.
C18_SenderOnlyFromRecord ==
    [][ /\ \A e \in DOMAIN sender' :
              (e \notin DOMAIN sender \/ sender'[e] # sender[e]) =>
                  /\ e \in DOMAIN hassData
                  /\ sender'[e].device_id = hassData[e].device_id
                  /\ sender'[e].token = hassData[e].token
        /\ \A t \in Ran :
              (\/ DOMAIN t = {"None"}
               \/ "entry_id" \notin DOMAIN t
               \/ t.entry_id \notin DOMAIN hassData) =>
                  sender' = sender /\ services' = services
      ]_vars

\* C18 witness: the entry was set up and then removed before the task of its
\* setup ran; the task has run since, found no record, and no Sender was built
C18_Witness ==
    /\ freeIds = {}
    /\ entries = EmptyDict
    /\ hassData = EmptyDict
    /\ tasks = {}
    /\ sender = EmptyDict
    /\ services = {}

====
